---- MODULE Spec2Model ----
(***************************************************************************)
(* GitGutter, modules/commands.py: the enablement gate                     *)
(* (GitGutterCommand.is_enabled), the action dispatcher                    *)
(* (GitGutterCommand.run) and the per-action wrapper commands.             *)
(*                                                                         *)
(* The view, the settings and the git installation belong to the host;    *)
(* they are the record env.  The command object owns _state, the view     *)
(* setting git_gutter_is_enabled and (through its git handler) the cached  *)
(* working tree and git version.  last describes the most recent          *)
(* operation: its arguments, what it returned and the collaborator calls  *)
(* and stores it made, in order.                                          *)
(***************************************************************************)
EXTENDS Integers, Sequences, FiniteSets, TLC

VARIABLES env, _state, view_settings, git_tree, git_version, evaluated, last

vars == <<env, _state, view_settings, git_tree, git_version, evaluated, last>>

(***************************************************************************)
(* Values                                                                  *)
(***************************************************************************)

\* Largest events bitmask the host passes.
MaxEvents == 15

\* Python's None as a string-valued result (a path, a version, a result).
NoneVal == "None"

\* kwargs.get('events') when the call carries no events argument.
NoEvents == -1

\* kwargs.get('action') when the call carries no action argument.
NoAction == "<absent>"

\* Lifecycle event flags of modules/events.py: four distinct bits.
LOAD == 1

ACTIVATED == 2

POST_SAVE == 4

MODIFIED == 8

RECURSIVE BitAnd(_, _)
\* Python's a & b on non-negative integers.
BitAnd(a, b) ==
    IF a = 0 \/ b = 0 THEN 0
    ELSE (a % 2) * (b % 2) + 2 * BitAnd(a \div 2, b \div 2)

\* Python's a | b on non-negative integers.
BitOr(a, b) == a + b - BitAnd(a, b)

\* Truth value of a string-valued result: None and '' are falsy.
Truthy(v) == v \notin {NoneVal, ""}

EventsArgs == {NoEvents} \cup (0..MaxEvents)

Encodings == {"UTF-8", "Hexadecimal"}

WorkTrees == {NoneVal, "/repo"}

GitVersions == {NoneVal, "2.9.0"}

\* What the gate can read from the settings, the view and the git handler.
Conds ==
    [enable : BOOLEAN, window : BOOLEAN, is_scratch : BOOLEAN,
     is_read_only : BOOLEAN, is_widget : BOOLEAN, repl : BOOLEAN,
     encoding : Encodings, debug : BOOLEAN,
     tree : WorkTrees, git : GitVersions]

CondFields ==
    {"enable", "window", "is_scratch", "is_read_only", "is_widget", "repl",
     "encoding", "debug", "tree", "git"}

\* An environment in which nothing disables the feature.
ClearCond ==
    [enable |-> TRUE, window |-> TRUE, is_scratch |-> FALSE,
     is_read_only |-> FALSE, is_widget |-> FALSE, repl |-> FALSE,
     encoding |-> "UTF-8", debug |-> FALSE,
     tree |-> "/repo", git |-> "2.9.0"]

\* DISABLED_REASON without the text of state 9.
DISABLED_REASON_no_git ==
    [s \in 1..8 |->
        CASE s = 1 -> "disabled in settings"
          [] s = 2 -> "view is transient"
          [] s = 3 -> "view is scratch"
          [] s = 4 -> "view is readonly"
          [] s = 5 -> "view is a widget"
          [] s = 6 -> "view is a REPL"
          [] s = 7 -> "view encoding is Hexadecimal"
          [] s = 8 -> "file not in a working tree"]

\* The reason why evaluation is skipped, which is printed to the console.
DISABLED_REASON ==
    [s \in 1..9 |->
        CASE s = 1 -> "disabled in settings"
          [] s = 2 -> "view is transient"
          [] s = 3 -> "view is scratch"
          [] s = 4 -> "view is readonly"
          [] s = 5 -> "view is a widget"
          [] s = 6 -> "view is a REPL"
          [] s = 7 -> "view encoding is Hexadecimal"
          [] s = 8 -> "file not in a working tree"
          [] s = 9 -> "git is not working"]

\* The map of sub commands and their implementation.
commands ==
    [a \in {"jump_to_next_change", "jump_to_prev_change",
            "compare_against_commit", "compare_against_file_commit",
            "compare_against_branch", "compare_against_tag",
            "compare_against_head", "compare_against_origin",
            "show_compare", "show_diff_popup"} |->
        CASE a = "jump_to_next_change" -> "goto.next_change"
          [] a = "jump_to_prev_change" -> "goto.prev_change"
          [] a = "compare_against_commit" -> "compare.set_against_commit"
          [] a = "compare_against_file_commit" ->
                 "compare.set_against_file_commit"
          [] a = "compare_against_branch" -> "compare.set_against_branch"
          [] a = "compare_against_tag" -> "compare.set_against_tag"
          [] a = "compare_against_head" -> "compare.set_against_head"
          [] a = "compare_against_origin" -> "compare.set_against_origin"
          [] a = "show_compare" -> "compare.show_compare"
          [] a = "show_diff_popup" -> "popup.show_diff_popup"]

\* WrapperAction with a misspelt action in GitGutterCompareOriginCommand.
WrapperAction_misspelt ==
    [w \in {"GitGutterShowCompareCommand", "GitGutterCompareHeadCommand",
            "GitGutterCompareOriginCommand", "GitGutterCompareCommitCommand",
            "GitGutterCompareFileCommitCommand",
            "GitGutterCompareBranchCommand", "GitGutterCompareTagCommand",
            "GitGutterNextChangeCommand", "GitGutterPrevChangeCommand"} |->
        CASE w = "GitGutterShowCompareCommand" -> "show_compare"
          [] w = "GitGutterCompareHeadCommand" -> "compare_against_head"
          [] w = "GitGutterCompareOriginCommand" -> "not_a_real_action"
          [] w = "GitGutterCompareCommitCommand" -> "compare_against_commit"
          [] w = "GitGutterCompareFileCommitCommand" ->
                 "compare_against_file_commit"
          [] w = "GitGutterCompareBranchCommand" -> "compare_against_branch"
          [] w = "GitGutterCompareTagCommand" -> "compare_against_tag"
          [] w = "GitGutterNextChangeCommand" -> "jump_to_next_change"
          [] w = "GitGutterPrevChangeCommand" -> "jump_to_prev_change"]

\* The wrapper commands and the action each passes to git_gutter.
WrapperAction ==
    [w \in {"GitGutterShowCompareCommand", "GitGutterCompareHeadCommand",
            "GitGutterCompareOriginCommand", "GitGutterCompareCommitCommand",
            "GitGutterCompareFileCommitCommand",
            "GitGutterCompareBranchCommand", "GitGutterCompareTagCommand",
            "GitGutterNextChangeCommand", "GitGutterPrevChangeCommand"} |->
        CASE w = "GitGutterShowCompareCommand" -> "show_compare"
          [] w = "GitGutterCompareHeadCommand" -> "compare_against_head"
          [] w = "GitGutterCompareOriginCommand" -> "compare_against_origin"
          [] w = "GitGutterCompareCommitCommand" -> "compare_against_commit"
          [] w = "GitGutterCompareFileCommitCommand" ->
                 "compare_against_file_commit"
          [] w = "GitGutterCompareBranchCommand" -> "compare_against_branch"
          [] w = "GitGutterCompareTagCommand" -> "compare_against_tag"
          [] w = "GitGutterNextChangeCommand" -> "jump_to_next_change"
          [] w = "GitGutterPrevChangeCommand" -> "jump_to_prev_change"]

\* Action arguments the host passes: absent, empty, every table key and
\* one name that is not in the table.
ActionArgs == {NoAction, "", "not_a_real_action"} \cup DOMAIN commands

\* Results an action handler can return.
HandlerResults == {NoneVal, "done"}

Kwargs == [action : ActionArgs, events : EventsArgs]

NoKwargs == [action |-> NoAction, events |-> NoEvents]

(***************************************************************************)
(* Collaborator calls                                                      *)
(***************************************************************************)

\* One call of a collaborator: the function, the validate argument (of
\* work_tree and version), the kwargs (of an action handler), the text (of
\* log_message), the value stored (by settings().set), the state stored (in
\* self._state) and the result.
Call(fn) ==
    [fn |-> fn, validate |-> 0, kwargs |-> NoKwargs, self |-> "",
     text |-> "", value |-> FALSE, state |-> -1, ret |-> NoneVal]

\* The calls of function fn among calls.
CallsOf(calls, fn) == SelectSeq(calls, LAMBDA c : c.fn = fn)

\* dict.get(key, default) on the view's settings.
Get(settings, key, default) ==
    IF key \in DOMAIN settings THEN settings[key] ELSE default

\* The operation record before any operation of the command.
NoOp ==
    [op |-> "none", kwargs |-> NoKwargs, wrapper |-> "", cond |-> ClearCond,
     state |-> -1, first |-> FALSE, valid |-> FALSE, ret |-> NoneVal,
     raised |-> "", calls |-> <<>>]

(***************************************************************************)
(* The git handler's cached queries                                        *)
(***************************************************************************)

\* git_handler.work_tree(validate): looks the working tree up again when
\* validate is truthy, otherwise answers from the cache.
work_tree(validate, c, cache) == IF validate # 0 THEN c.tree ELSE cache

\* git_handler.version(validate): runs git again when validate is truthy,
\* otherwise answers from the cache.
version(validate, c, cache) == IF validate # 0 THEN c.git ELSE cache

(***************************************************************************)
(* GitGutterCommand.is_enabled                                             *)
(***************************************************************************)

\* ViewState with the read-only test moved before the scratch test.
ViewState_readonly_first(c) ==
    IF ~c.enable THEN 1
    ELSE IF ~c.window THEN 2
    ELSE IF c.is_read_only THEN 4
    ELSE IF c.is_scratch THEN 3
    ELSE IF c.is_widget THEN 5
    ELSE IF c.repl THEN 6
    ELSE IF c.encoding = "Hexadecimal" THEN 7
    ELSE 0

\* The if/elif chain over the settings and the view: the state of the first
\* condition that holds, 0 when the chain reaches its else branch.
ViewState(c) ==
    IF ~c.enable THEN 1
    ELSE IF ~c.window THEN 2
    ELSE IF c.is_scratch THEN 3
    ELSE IF c.is_read_only THEN 4
    ELSE IF c.is_widget THEN 5
    ELSE IF c.repl THEN 6
    ELSE IF c.encoding = "Hexadecimal" THEN 7
    ELSE 0

\* Validate with POST_SAVE left out of the mask.
Validate_no_post_save(events) ==
    IF events = NoEvents THEN 1
    ELSE BitAnd(events, BitOr(LOAD, ACTIVATED))

\* validate = queued_events is None or queued_events & (LOAD | ACTIVATED |
\* POST_SAVE); True counts as 1.
Validate(events) ==
    IF events = NoEvents THEN 1
    ELSE BitAnd(events, BitOr(LOAD, BitOr(ACTIVATED, POST_SAVE)))

\* GitChecks without the git version check.
GitChecks_no_version(events, c, tree, ver) ==
    LET validate == Validate(events)
        wt == work_tree(validate, c, tree)
        wtCall == [Call("git_handler.work_tree") EXCEPT
                       !.validate = validate, !.ret = wt]
    IN  [state |-> IF ~Truthy(wt) THEN 8 ELSE 0, calls |-> <<wtCall>>,
         git_tree |-> wt, git_version |-> ver]

\* The else branch: the working tree and git checks with their queries.
GitChecks(events, c, tree, ver) ==
    LET validate == Validate(events)
        wt == work_tree(validate, c, tree)
        wtCall == [Call("git_handler.work_tree") EXCEPT
                       !.validate = validate, !.ret = wt]
        v == version(validate, c, ver)
        vCall == [Call("git_handler.version") EXCEPT
                      !.validate = validate, !.ret = v]
    IN  IF ~Truthy(wt)
        THEN [state |-> 8, calls |-> <<wtCall>>,
              git_tree |-> wt, git_version |-> ver]
        ELSE [state |-> IF ~Truthy(v) THEN 9 ELSE 0,
              calls |-> <<wtCall, vCall>>,
              git_tree |-> wt, git_version |-> v]

\* Evaluate that queries the git handler before it looks at the settings
\* and the view.
Evaluate_queries_first(events, c, tree, ver) ==
    IF ViewState(c) # 0
    THEN [GitChecks(events, c, tree, ver) EXCEPT !.state = ViewState(c)]
    ELSE GitChecks(events, c, tree, ver)

\* The state computed by one evaluation, with the queries it made and the
\* handler's caches after them.
Evaluate(events, c, tree, ver) ==
    IF ViewState(c) # 0
    THEN [state |-> ViewState(c), calls |-> <<>>,
          git_tree |-> tree, git_version |-> ver]
    ELSE GitChecks(events, c, tree, ver)

\* ChangeCalls without the comparison with the stored state.
ChangeCalls_every_time(state, old, c) ==
    (IF state # 0
     THEN <<Call("show_diff_handler.clear"),
            Call("git_handler.invalidate_view_file")>>
          \o (IF c.debug
              THEN <<[Call("utils.log_message") EXCEPT
                          !.text = DISABLED_REASON[state]]>>
              ELSE <<>>)
     ELSE <<>>)
    \o (IF old # state
        THEN <<[Call("view.settings.set") EXCEPT !.value = (state = 0)],
               [Call("self._state") EXCEPT !.state = state]>>
        ELSE <<>>)

\* ChangeCalls that logs after the setting and the state are saved.
ChangeCalls_log_last(state, old, c) ==
    IF old # state
    THEN (IF state # 0
          THEN <<Call("show_diff_handler.clear"),
                 Call("git_handler.invalidate_view_file")>>
          ELSE <<>>)
         \o <<[Call("view.settings.set") EXCEPT !.value = (state = 0)],
              [Call("self._state") EXCEPT !.state = state]>>
         \o (IF state # 0 /\ c.debug
             THEN <<[Call("utils.log_message") EXCEPT
                         !.text = DISABLED_REASON[state]]>>
             ELSE <<>>)
    ELSE <<>>

\* "Handle changed state": the calls made when the computed state differs
\* from the stored one.
ChangeCalls(state, old, c) ==
    IF old # state
    THEN (IF state # 0
          THEN <<Call("show_diff_handler.clear"),
                 Call("git_handler.invalidate_view_file")>>
               \o (IF c.debug
                   THEN <<[Call("utils.log_message") EXCEPT
                               !.text = DISABLED_REASON[state]]>>
                   ELSE <<>>)
          ELSE <<>>)
         \o <<[Call("view.settings.set") EXCEPT !.value = (state = 0)],
              [Call("self._state") EXCEPT !.state = state]>>
    ELSE <<>>

\* ChangeSettings that writes the setting only when the feature is enabled.
ChangeSettings_only_enabled(state, old, settings) ==
    IF old # state /\ state = 0
    THEN [k \in DOMAIN settings \cup {"git_gutter_is_enabled"} |->
             IF k = "git_gutter_is_enabled" THEN TRUE ELSE settings[k]]
    ELSE settings

\* The view's settings after the evaluation.
ChangeSettings(state, old, settings) ==
    IF old # state
    THEN [k \in DOMAIN settings \cup {"git_gutter_is_enabled"} |->
             IF k = "git_gutter_is_enabled" THEN state = 0 ELSE settings[k]]
    ELSE settings

\* ChangeState that saves the computed state only when it is a disabled
\* one.
ChangeState_only_disabled(state, old) ==
    IF old # state /\ state # 0 THEN state ELSE old

\* ChangeState that never saves the computed state.
ChangeState_not_saved(state, old) == old

\* _state after the evaluation.
ChangeState(state, old) == IF old # state THEN state ELSE old

\* DISABLED_REASON[state] fails with a KeyError: the state changed to a
\* disabled one, debug is set and the table has no text for the state.
LogRaises(state, old, c) ==
    /\ old # state
    /\ state # 0
    /\ c.debug
    /\ state \notin DOMAIN DISABLED_REASON

\* The calls made before the KeyError.
RaisedCalls ==
    <<Call("show_diff_handler.clear"),
      Call("git_handler.invalidate_view_file")>>

\* One call of GitGutterCommand.is_enabled(events=events) in environment c.
is_enabled(events, c) ==
    \E e \in {Evaluate(events, c, git_tree, git_version)} :
      \E raises \in {LogRaises(e.state, _state, c)} :
        /\ git_tree' = e.git_tree
        /\ git_version' = e.git_version
        /\ view_settings' =
               IF raises THEN view_settings
               ELSE ChangeSettings(e.state, _state, view_settings)
        /\ _state' = IF raises THEN _state ELSE ChangeState(e.state, _state)
        /\ evaluated' = e.state
        /\ last' = [NoOp EXCEPT
                        !.op = "is_enabled",
                        !.kwargs = [action |-> NoAction, events |-> events],
                        !.cond = c,
                        !.state = e.state,
                        !.first = (evaluated = -1),
                        !.valid = (~raises /\ e.state = 0),
                        !.raised = IF raises THEN "KeyError" ELSE "",
                        !.calls =
                            e.calls \o
                            (IF raises THEN RaisedCalls
                             ELSE ChangeCalls(e.state, _state, c))]

(***************************************************************************)
(* GitGutterCommand.run                                                    *)
(***************************************************************************)

\* RunOutcome without the return after the action handler: the default
\* behaviour follows the handler.
RunOutcome_fall_through(kwargs, r) ==
    LET queued_events ==
            IF kwargs.events = NoEvents THEN 0 ELSE kwargs.events
        default ==
            (IF BitAnd(queued_events, BitOr(LOAD, MODIFIED)) = 0
             THEN <<Call("git_handler.invalidate_git_file")>>
             ELSE <<>>)
            \o <<Call("show_diff_handler.run")>>
    IN  IF Truthy(kwargs.action) /\ kwargs.action # NoAction
        THEN IF kwargs.action \in DOMAIN commands
             THEN [calls |-> <<[Call(commands[kwargs.action]) EXCEPT
                                    !.self = "GitGutterCommand",
                                    !.kwargs = kwargs, !.ret = r]>>
                             \o default,
                   ret |-> NoneVal, raised |-> ""]
             ELSE [calls |-> <<>>, ret |-> NoneVal,
                   raised |-> "AssertionError"]
        ELSE [calls |-> default, ret |-> NoneVal, raised |-> ""]

\* RunOutcome without the assertion: an unknown action is skipped and the
\* default behaviour runs.
RunOutcome_no_assert(kwargs, r) ==
    LET queued_events ==
            IF kwargs.events = NoEvents THEN 0 ELSE kwargs.events
        default ==
            (IF BitAnd(queued_events, BitOr(LOAD, MODIFIED)) = 0
             THEN <<Call("git_handler.invalidate_git_file")>>
             ELSE <<>>)
            \o <<Call("show_diff_handler.run")>>
    IN  IF Truthy(kwargs.action) /\ kwargs.action # NoAction
           /\ kwargs.action \in DOMAIN commands
        THEN [calls |-> <<[Call(commands[kwargs.action]) EXCEPT
                               !.self = "GitGutterCommand",
                               !.kwargs = kwargs, !.ret = r]>>,
              ret |-> r, raised |-> ""]
        ELSE [calls |-> default, ret |-> NoneVal, raised |-> ""]

\* RunOutcome that tests the events mask for LOAD only.
RunOutcome_load_only(kwargs, r) ==
    IF Truthy(kwargs.action) /\ kwargs.action # NoAction
    THEN IF kwargs.action \in DOMAIN commands
         THEN [calls |-> <<[Call(commands[kwargs.action]) EXCEPT
                                !.self = "GitGutterCommand",
                                !.kwargs = kwargs, !.ret = r]>>,
               ret |-> r, raised |-> ""]
         ELSE [calls |-> <<>>, ret |-> NoneVal, raised |-> "AssertionError"]
    ELSE LET queued_events ==
                 IF kwargs.events = NoEvents THEN 0 ELSE kwargs.events
         IN  [calls |->
                  (IF BitAnd(queued_events, LOAD) = 0
                   THEN <<Call("git_handler.invalidate_git_file")>>
                   ELSE <<>>)
                  \o <<Call("show_diff_handler.run")>>,
              ret |-> NoneVal, raised |-> ""]

\* The calls, the result and the failure of run(**kwargs); r is what the
\* action handler returns.
RunOutcome(kwargs, r) ==
    IF Truthy(kwargs.action) /\ kwargs.action # NoAction
    THEN IF kwargs.action \in DOMAIN commands
         THEN [calls |-> <<[Call(commands[kwargs.action]) EXCEPT
                                !.self = "GitGutterCommand",
                                !.kwargs = kwargs, !.ret = r]>>,
               ret |-> r, raised |-> ""]
         ELSE [calls |-> <<>>, ret |-> NoneVal, raised |-> "AssertionError"]
    ELSE LET queued_events ==
                 IF kwargs.events = NoEvents THEN 0 ELSE kwargs.events
         IN  [calls |->
                  (IF BitAnd(queued_events, BitOr(LOAD, MODIFIED)) = 0
                   THEN <<Call("git_handler.invalidate_git_file")>>
                   ELSE <<>>)
                  \o <<Call("show_diff_handler.run")>>,
              ret |-> NoneVal, raised |-> ""]

\* One call of GitGutterCommand.run(edit, **kwargs), entered through the
\* wrapper command named wrapper ("" when the host runs git_gutter itself).
run(kwargs, r, wrapper) ==
    \E o \in {RunOutcome(kwargs, r)} :
        /\ last' = [NoOp EXCEPT
                        !.op = "run", !.kwargs = kwargs,
                        !.wrapper = wrapper, !.ret = o.ret,
                        !.raised = o.raised, !.calls = o.calls]
        /\ UNCHANGED <<env, _state, view_settings, git_tree, git_version,
                       evaluated>>

(***************************************************************************)
(* The wrapper commands                                                    *)
(***************************************************************************)

\* BaseIsEnabled with True as the default of the setting.
BaseIsEnabled_default_true ==
    /\ last' = [NoOp EXCEPT
                    !.op = "base_is_enabled",
                    !.valid = Get(view_settings, "git_gutter_is_enabled",
                                  TRUE)]
    /\ UNCHANGED <<env, _state, view_settings, git_tree, git_version,
                   evaluated>>

\* GitGutterBaseCommand.is_enabled: reads the stored setting.
BaseIsEnabled ==
    /\ last' = [NoOp EXCEPT
                    !.op = "base_is_enabled",
                    !.valid = Get(view_settings, "git_gutter_is_enabled",
                                  FALSE)]
    /\ UNCHANGED <<env, _state, view_settings, git_tree, git_version,
                   evaluated>>

\* The run method of wrapper command w:
\* view.run_command('git_gutter', {'action': ...}).
WrapperRun(w, r) ==
    run([action |-> WrapperAction[w], events |-> NoEvents], r, w)

(***************************************************************************)
(* The host                                                                *)
(***************************************************************************)

\* The environment in which condition k of the if/elif chain (1..7) is the
\* only one that holds.
OnlyCond(k) ==
    [ClearCond EXCEPT
        !.enable = (k # 1), !.window = (k # 2), !.is_scratch = (k = 3),
        !.is_read_only = (k = 4), !.is_widget = (k = 5), !.repl = (k = 6),
        !.encoding = IF k = 7 THEN "Hexadecimal" ELSE "UTF-8"]

\* The environments that differ in what decides the state of an evaluation:
\* one condition of the if/elif chain holds, or none and the chain reaches
\* the working tree and git checks.  (SpecGate covers every environment.)
HostConds ==
    {OnlyCond(k) : k \in 1..7}
    \cup {[ClearCond EXCEPT !.tree = t, !.git = g] :
              t \in WorkTrees, g \in GitVersions}

\* Events arguments of a run that names an action.
ActionEvents == {NoEvents, 0, LOAD}

\* The kwargs the host passes to run.
RunKwargs ==
    {k \in Kwargs :
        (Truthy(k.action) /\ k.action # NoAction) => k.events \in ActionEvents}

\* The host evaluates the gate after any change of the environment.
HostGate(events, c) ==
    /\ env' = c
    /\ is_enabled(events, c)

\* The host runs git_gutter.
HostRun(kwargs, r) == run(kwargs, r, "")

\* The host changes one attribute of the environment.
EnvChange(f, v) ==
    /\ v # env[f]
    /\ env' = [env EXCEPT ![f] = v]
    /\ last' = NoOp
    /\ UNCHANGED <<_state, view_settings, git_tree, git_version, evaluated>>

\* The host evaluates the gate in the current environment.
Gate(events) ==
    /\ env' = env
    /\ is_enabled(events, env)

\* The state after GitGutterCommand.__init__.
Constructed ==
    /\ _state = -1
    /\ view_settings = [k \in {} |-> FALSE]
    /\ git_tree = NoneVal
    /\ git_version = NoneVal
    /\ evaluated = -1
    /\ last = NoOp

Init ==
    /\ env = ClearCond
    /\ Constructed

Next ==
    \/ \E events \in EventsArgs, c \in HostConds : HostGate(events, c)
    \/ \E kwargs \in RunKwargs, r \in HandlerResults : HostRun(kwargs, r)
    \/ BaseIsEnabled
    \/ \E w \in DOMAIN WrapperAction, r \in HandlerResults : WrapperRun(w, r)

\* The command with the host driving the gate, the dispatcher and the
\* wrappers.
Spec == Init /\ [][Next]_vars

InitGate ==
    /\ env \in Conds
    /\ Constructed

FieldValues(f) == {c[f] : c \in Conds}

NextGate ==
    \/ \E f \in CondFields : \E v \in FieldValues(f) : EnvChange(f, v)
    \/ \E events \in EventsArgs : Gate(events)

\* The gate alone, in every environment.
SpecGate == InitGate /\ [][NextGate]_vars

\* The gate returned true in the last operation, for a call with these
\* events.
GateAllowed(events) ==
    /\ last.op = "is_enabled"
    /\ last.valid
    /\ last.kwargs.events = events

\* The host runs git_gutter right after the gate returned true for the same
\* arguments.
GatedRun(kwargs, r) ==
    /\ GateAllowed(kwargs.events)
    /\ HostRun(kwargs, r)

\* The command a wrapper re-enters runs right after the gate returned true
\* for the wrapper's arguments (an action and no events).
GatedWrapperRun(w, r) ==
    /\ GateAllowed(NoEvents)
    /\ WrapperRun(w, r)

\* The environment changes while the command is idle.
HostEnvChange(c) ==
    /\ c # env
    /\ env' = c
    /\ UNCHANGED <<_state, view_settings, git_tree, git_version, evaluated,
                   last>>

NextHost ==
    \/ \E events \in EventsArgs, c \in HostConds : HostGate(events, c)
    \/ \E c \in HostConds : HostEnvChange(c)
    \/ \E kwargs \in RunKwargs, r \in HandlerResults : GatedRun(kwargs, r)
    \/ BaseIsEnabled
    \/ \E w \in DOMAIN WrapperAction, r \in HandlerResults :
           GatedWrapperRun(w, r)

\* The command under a host that evaluates the gate before every run and
\* runs the command only if the gate returned true.
SpecHost == Init /\ [][NextHost]_vars

(***************************************************************************)
(* Properties                                                              *)
(***************************************************************************)

\* The stored setting as another module reads it (unset counts as false).
Setting == Get(view_settings, "git_gutter_is_enabled", FALSE)

\* Mask m contains the event flag b (a power of two).
HasFlag(m, b) == m # NoEvents /\ (m \div b) % 2 = 1

\* The events argument selects validation: it is absent or carries one of
\* LOAD, ACTIVATED, POST_SAVE.
Validating(events) ==
    \/ events = NoEvents
    \/ HasFlag(events, LOAD)
    \/ HasFlag(events, ACTIVATED)
    \/ HasFlag(events, POST_SAVE)

\* Number of calls of fn in the last operation.
Count(calls, fn) == Len(CallsOf(calls, fn))

\* The disabling conditions 1..9 that hold for an evaluation with the given
\* events in environment c, when the handler's caches hold tree and ver.
Holding(c, events, tree, ver) ==
    {k \in 1..9 :
        \/ k = 1 /\ ~c.enable
        \/ k = 2 /\ ~c.window
        \/ k = 3 /\ c.is_scratch
        \/ k = 4 /\ c.is_read_only
        \/ k = 5 /\ c.is_widget
        \/ k = 6 /\ c.repl
        \/ k = 7 /\ c.encoding = "Hexadecimal"
        \/ k = 8 /\ ~Truthy(IF Validating(events) THEN c.tree ELSE tree)
        \/ k = 9 /\ ~Truthy(IF Validating(events) THEN c.git ELSE ver)}

Lowest(S) == CHOOSE k \in S : \A j \in S : k <= j

\* A step is one evaluation of the gate.
GateStep == last'.op = "is_enabled"

\* C1: whichever of the nine disabling conditions hold together, an
\* evaluation computes the code of the lowest-numbered one, returns false
\* and leaves that code in _state.
C1_FirstMatchWins ==
    [][GateStep =>
        LET H == Holding(env', last'.kwargs.events, git_tree, git_version)
        IN  H # {} =>
                /\ last'.state = Lowest(H)
                /\ last'.valid = FALSE
                /\ _state' = Lowest(H)]_vars

\* An evaluation that computed state 3 while the read-only condition, the
\* REPL condition and the missing working tree held as well.
C1_Witness ==
    /\ last.op = "is_enabled"
    /\ last.state = 3
    /\ _state = 3
    /\ last.cond.is_read_only
    /\ last.cond.repl
    /\ ~Truthy(last.cond.tree)
    /\ Validating(last.kwargs.events)

\* C2: an evaluation returns true with state 0 exactly when none of the
\* conditions 1..7 holds and both work_tree and version were queried in that
\* evaluation and returned a truthy value.
C2_EnabledIff ==
    last.op = "is_enabled" =>
        LET wt == CallsOf(last.calls, "git_handler.work_tree")
            v == CallsOf(last.calls, "git_handler.version")
            ok == /\ Holding(last.cond, last.kwargs.events,
                             NoneVal, NoneVal) \cap (1..7) = {}
                  /\ Len(wt) = 1 /\ Truthy(wt[1].ret)
                  /\ Len(v) = 1 /\ Truthy(v[1].ret)
        IN  /\ last.valid <=> ok
            /\ last.state = 0 <=> ok
            /\ Len(wt) <= 1 /\ Len(v) <= 1

\* An evaluation that returned true.
C2_Witness ==
    /\ last.op = "is_enabled"
    /\ last.valid
    /\ last.state = 0
    /\ Count(last.calls, "git_handler.version") = 1

\* C3: the view setting git_gutter_is_enabled (unset counting as false)
\* equals (_state = 0) after every sequence of evaluations and runs; after
\* an evaluation _state is the state it computed and the value it returned
\* is the setting.
C3_SettingIsStateZero ==
    /\ Setting = (_state = 0)
    /\ last.op = "is_enabled" =>
           /\ _state = last.state
           /\ last.valid = Setting

\* A run of the command after the gate enabled the feature.
C3_Witness ==
    /\ last.op = "run"
    /\ _state = 0
    /\ Setting
    /\ "git_gutter_is_enabled" \in DOMAIN view_settings

\* C4: an evaluation calls show_diff_handler.clear() and
\* git_handler.invalidate_view_file() once each when the computed state
\* differs from the stored _state and is a disabled state, and not at all
\* otherwise.
C4_ClearOnEdgeIntoDisabled ==
    [][GateStep =>
        LET n == IF last'.state # _state /\ last'.state \in 1..9
                 THEN 1 ELSE 0
        IN  /\ Count(last'.calls, "show_diff_handler.clear") = n
            /\ Count(last'.calls, "git_handler.invalidate_view_file") = n]_vars

\* An evaluation that found the working tree gone and cleared the display.
C4_Witness ==
    /\ last.op = "is_enabled"
    /\ last.state = 8
    /\ Count(last.calls, "show_diff_handler.clear") = 1
    /\ Count(last.calls, "git_handler.invalidate_view_file") = 1

\* The clear, invalidate-view-file and log calls of an operation.
SideEffects == {"show_diff_handler.clear", "git_handler.invalidate_view_file",
                "utils.log_message"}

\* Two evaluations in a row with the environment unchanged between them.
TwoEvaluations ==
    /\ last.op = "is_enabled"
    /\ last'.op = "is_enabled"
    /\ last.cond = env
    /\ env' = env

\* What C5 promises of two evaluations in a row.
Idempotent ==
    /\ last'.valid = last.valid
    /\ \A fn \in SideEffects :
           Count(last.calls, fn) + Count(last'.calls, fn) <= 1
    /\ _state' = _state
    /\ view_settings' = view_settings

\* C5 as stated: two evaluations in a row with unchanged conditions, for any
\* events arguments, return the same result, trigger each side effect at
\* most once in total, and the second changes neither _state nor the
\* setting.
C5_Original == [][TwoEvaluations => Idempotent]_vars

\* C5 amended: the same, provided the second evaluation validates the
\* working tree and git version only if the first one did.
C5_IdempotentGate ==
    [][(/\ TwoEvaluations
        /\ Validating(last'.kwargs.events) => Validating(last.kwargs.events))
       => Idempotent]_vars

\* A second evaluation of an unchanged, disabled environment: it repeated
\* the working tree query and made no other call.
C5_Witness ==
    /\ last.op = "is_enabled"
    /\ last.cond = env
    /\ last.state = 8
    /\ _state = 8
    /\ ~Setting
    /\ Len(last.calls) = 1
    /\ last.calls[1].fn = "git_handler.work_tree"

\* The work_tree and version calls of the last operation.
Queries ==
    {last.calls[i] : i \in 1..Len(last.calls)} \cap
    {q \in {last.calls[i] : i \in 1..Len(last.calls)} :
        q.fn \in {"git_handler.work_tree", "git_handler.version"}}

\* C6 as stated: the queries are validated only if the events argument
\* carries LOAD, ACTIVATED or POST_SAVE, and not when it is absent.
C6_Original ==
    last.op = "is_enabled" =>
        \A q \in Queries :
            q.validate # 0 <=>
                \/ HasFlag(last.kwargs.events, LOAD)
                \/ HasFlag(last.kwargs.events, ACTIVATED)
                \/ HasFlag(last.kwargs.events, POST_SAVE)

\* C6 amended: the queries are validated exactly when the events argument
\* is absent or carries LOAD, ACTIVATED or POST_SAVE; with events = 0 or
\* MODIFIED only the cached result is reused.
C6_ValidateOnSelectEvents ==
    last.op = "is_enabled" =>
        \A q \in Queries :
            /\ q.validate # 0 <=> Validating(last.kwargs.events)
            /\ q.validate = 0 =>
                   q.ret = IF q.fn = "git_handler.work_tree"
                           THEN git_tree ELSE git_version

\* An evaluation without events argument that validated its queries.
C6_Witness ==
    /\ last.op = "is_enabled"
    /\ last.kwargs.events = NoEvents
    /\ Queries # {}
    /\ \A q \in Queries : q.validate # 0

\* The last operation is a run of the command with this action argument.
RanWith(actions) == last.op = "run" /\ last.kwargs.action \in actions

\* C7: run with an action of the dispatch table calls the handler mapped to
\* that action once, with the command object and the full kwargs, returns
\* the handler's result and calls nothing else.
C7_DispatchExactlyMappedHandler ==
    RanWith(DOMAIN commands) =>
        /\ Len(last.calls) = 1
        /\ last.calls[1].fn = commands[last.kwargs.action]
        /\ last.kwargs.action = "jump_to_next_change" =>
               last.calls[1].fn = "goto.next_change"
        /\ last.calls[1].self = "GitGutterCommand"
        /\ last.calls[1].kwargs = last.kwargs
        /\ last.ret = last.calls[1].ret
        /\ last.raised = ""

\* run(action='jump_to_next_change', events=LOAD) returned what
\* goto.next_change returned.
C7_Witness ==
    /\ RanWith({"jump_to_next_change"})
    /\ last.kwargs.events = LOAD
    /\ last.wrapper = ""
    /\ last.ret = "done"
    /\ Len(last.calls) = 1

\* A step is a run of the command with an action argument outside names.
RunStepOutside(names) ==
    /\ last'.op = "run"
    /\ last'.kwargs.action \notin names

\* What C8 promises of a failing run.
FailsFast ==
    /\ last'.raised = "AssertionError"
    /\ last'.calls = <<>>
    /\ _state' = _state
    /\ view_settings' = view_settings

\* C8 as stated: run with an action argument that is present and is not a
\* key of the dispatch table fails with an assertion, calls no collaborator
\* and leaves _state and the setting unchanged.
C8_Original ==
    [][RunStepOutside(DOMAIN commands \cup {NoAction}) => FailsFast]_vars

\* C8 amended: the same for an action argument that is present, not empty
\* (truthy) and not a key of the dispatch table.
C8_UnknownActionFailsFast ==
    [][RunStepOutside(DOMAIN commands \cup {NoAction, ""}) => FailsFast]_vars

\* run(action='not_a_real_action') failed while the feature was enabled.
C8_Witness ==
    /\ RanWith({"not_a_real_action"})
    /\ last.raised = "AssertionError"
    /\ _state = 0
    /\ Setting

\* C9: run without an action calls git_handler.invalidate_git_file() once
\* if the events mask (0 when absent) contains neither LOAD nor MODIFIED and
\* not at all otherwise; it calls show_diff_handler.run() once in both
\* cases, as its last call.
C9_DefaultRun ==
    RanWith({NoAction}) =>
        LET events == last.kwargs.events
            n == IF HasFlag(events, LOAD) \/ HasFlag(events, MODIFIED)
                 THEN 0 ELSE 1
        IN  /\ Count(last.calls, "git_handler.invalidate_git_file") = n
            /\ Count(last.calls, "show_diff_handler.run") = 1
            /\ Len(last.calls) = n + 1
            /\ last.calls[Len(last.calls)].fn = "show_diff_handler.run"
            /\ last.raised = ""

\* run(events=MODIFIED | POST_SAVE) refreshed the display without
\* invalidating the git file.
C9_Witness ==
    /\ RanWith({NoAction})
    /\ last.kwargs.events = MODIFIED + POST_SAVE
    /\ Count(last.calls, "git_handler.invalidate_git_file") = 0
    /\ Count(last.calls, "show_diff_handler.run") = 1

\* C10: a wrapper command's is_enabled returns true exactly when the most
\* recent evaluation of the gate computed state 0 (false before the first
\* evaluation); it calls no collaborator and changes neither _state, the
\* setting nor the git handler.
C10_WrapperReadsLastState ==
    [][last'.op = "base_is_enabled" =>
        /\ last'.valid = (evaluated = 0)
        /\ last'.calls = <<>>
        /\ UNCHANGED <<_state, view_settings, git_tree, git_version,
                       evaluated, env>>]_vars

\* A wrapper reported enabled after the gate computed state 0.
C10_Witness ==
    /\ last.op = "base_is_enabled"
    /\ last.valid
    /\ evaluated = 0

\* The actions the wrapper commands pass.
WrappedActions == {WrapperAction[w] : w \in DOMAIN WrapperAction}

\* The last operation is a run entered through a wrapper command: it
\* carried the wrapper's action and nothing else, called the handler of
\* that action and did not fail.
WrapperReentersDispatcher ==
    (last.op = "run" /\ last.wrapper # "") =>
        /\ last.wrapper \in DOMAIN WrapperAction
        /\ last.kwargs =
               [action |-> WrapperAction[last.wrapper], events |-> NoEvents]
        /\ last.kwargs.action \in DOMAIN commands
        /\ last.raised = ""
        /\ Len(last.calls) = 1
        /\ last.calls[1].fn = commands[last.kwargs.action]

\* C11 as stated: there are ten wrappers, one for each of the ten actions of
\* the dispatch table; a wrapper run re-enters the command once with its
\* action, which is a table key, and never meets the assertion.
C11_Original ==
    /\ Cardinality(DOMAIN WrapperAction) = 10
    /\ WrappedActions = DOMAIN commands
    /\ WrapperReentersDispatcher

\* C11 amended: there are nine wrappers, one for each action of the
\* dispatch table except show_diff_popup; a wrapper run re-enters the
\* command once with its action, which is a table key, and never meets the
\* assertion.
C11_WrappersUseTableKeys ==
    /\ Cardinality(DOMAIN WrapperAction) = 9
    /\ Cardinality(WrappedActions) = 9
    /\ WrappedActions = DOMAIN commands \ {"show_diff_popup"}
    /\ WrapperReentersDispatcher

\* GitGutterCompareOriginCommand ran compare.set_against_origin.
C11_Witness ==
    /\ last.op = "run"
    /\ last.wrapper = "GitGutterCompareOriginCommand"
    /\ Len(last.calls) = 1
    /\ last.calls[1].fn = "compare.set_against_origin"
    /\ last.raised = ""

\* The last evaluation met an expected disabling condition: one of the
\* conditions 1..7 held, or a query of the git handler returned a falsy
\* value.
MetDisablingCondition ==
    \/ Holding(last.cond, last.kwargs.events, NoneVal, NoneVal)
           \cap (1..7) # {}
    \/ \E q \in Queries : ~Truthy(q.ret)

\* C12: an evaluation never raises, whatever the settings, the view and the
\* git handler answer and whatever _state was; a disabling condition shows
\* only as a state code in 1..9 and a false result.
C12_DisabledIsNotAFailure ==
    last.op = "is_enabled" =>
        /\ last.raised = ""
        /\ MetDisablingCondition =>
               /\ last.state \in 1..9
               /\ last.valid = FALSE
               /\ _state = last.state
               /\ ~Setting

\* An evaluation that found git not working, with debug set, and logged the
\* reason.
C12_Witness ==
    /\ last.op = "is_enabled"
    /\ last.state = 9
    /\ last.cond.debug
    /\ Count(last.calls, "utils.log_message") = 1
    /\ last.raised = ""

\* The position of the call of fn in calls (0 when there is none).
Position(calls, fn) ==
    IF \E i \in 1..Len(calls) : calls[i].fn = fn
    THEN CHOOSE i \in 1..Len(calls) : calls[i].fn = fn
    ELSE 0

\* C13: an evaluation emits a diagnostic line exactly when the computed
\* state differs from the stored _state, is a disabled state and debug is
\* set; the line carries the reason text of the computed state, not of the
\* previous one, and comes after the clear and invalidate-view-file calls
\* and before the setting and _state are saved.
C13_LogOnEdgeIntoDisabled ==
    [][GateStep =>
        LET emit == /\ last'.state # _state
                    /\ last'.state \in 1..9
                    /\ env'.debug
            calls == last'.calls
            log == CallsOf(calls, "utils.log_message")
        IN  /\ Len(log) = IF emit THEN 1 ELSE 0
            /\ emit =>
                 /\ log[1].text = DISABLED_REASON[last'.state]
                 /\ last'.state = 8 => log[1].text = "file not in a working tree"
                 /\ _state \in 1..9 => log[1].text # DISABLED_REASON[_state]
                 /\ 0 < Position(calls, "show_diff_handler.clear")
                 /\ Position(calls, "show_diff_handler.clear")
                        < Position(calls, "git_handler.invalidate_view_file")
                 /\ Position(calls, "git_handler.invalidate_view_file")
                        < Position(calls, "utils.log_message")
                 /\ Position(calls, "utils.log_message")
                        < Position(calls, "view.settings.set")
                 /\ Position(calls, "view.settings.set")
                        < Position(calls, "self._state")]_vars

\* A later evaluation that found the encoding Hexadecimal and logged it.
C13_Witness ==
    /\ last.op = "is_enabled"
    /\ ~last.first
    /\ last.state = 7
    /\ Count(last.calls, "utils.log_message") = 1
    /\ last.calls[Position(last.calls, "utils.log_message")].text
           = "view encoding is Hexadecimal"

\* _state is a state code or the initial -1, and it is -1 exactly as long
\* as the gate was never evaluated.
StateInRange ==
    /\ _state \in {-1} \cup (0..9)
    /\ _state = -1 <=> evaluated = -1

\* The first evaluation of the gate counts as a change of state.
FirstEvaluationIsAChange ==
    (GateStep /\ _state = -1) =>
        LET n == IF last'.state \in 1..9 THEN 1 ELSE 0
        IN  /\ last'.first
            /\ last'.state \in 0..9
            /\ _state' = last'.state
            /\ Count(last'.calls, "view.settings.set") = 1
            /\ "git_gutter_is_enabled" \in DOMAIN view_settings'
            /\ "git_gutter_is_enabled" \notin DOMAIN view_settings
            /\ Count(last'.calls, "show_diff_handler.clear") = n
            /\ Count(last'.calls, "git_handler.invalidate_view_file") = n

\* C14: _state is always -1 or one of 0..9; it is -1 only before the first
\* evaluation of the gate and never becomes -1 again; the first evaluation
\* therefore always writes the setting and, when it computes a disabled
\* state, calls clear and invalidate_view_file.
C14_InitialStateIsMinusOne ==
    /\ []StateInRange
    /\ [][/\ _state # -1 => _state' # -1
          /\ FirstEvaluationIsAChange]_vars

\* The first evaluation found no working tree: it cleared the display and
\* wrote the setting although nothing had been enabled.
C14_Witness ==
    /\ last.op = "is_enabled"
    /\ last.first
    /\ last.state = 8
    /\ _state = 8
    /\ Count(last.calls, "show_diff_handler.clear") = 1
    /\ "git_gutter_is_enabled" \in DOMAIN view_settings
    /\ ~Setting

\* The functions run can call: the action handlers, invalidate_git_file and
\* show_diff_handler.run.
RunCollaborators ==
    {commands[a] : a \in DOMAIN commands}
    \cup {"git_handler.invalidate_git_file", "show_diff_handler.run"}

\* C15: under a host that evaluates the gate with the same arguments right
\* before each run and runs only if it returned true, no action handler, no
\* invalidate_git_file and no show_diff_handler.run executes while _state is
\* a disabled state, however evaluations, wrapper runs and changes of the
\* environment interleave.
C15_NoRunWhileDisabled ==
    (/\ last.op = "run"
     /\ \E i \in 1..Len(last.calls) : last.calls[i].fn \in RunCollaborators)
    => /\ _state \notin 1..9
       /\ _state = 0
       /\ Setting

\* GitGutterNextChangeCommand ran goto.next_change with _state 0, after the
\* feature was switched off in the settings but before the next evaluation.
C15_Witness ==
    /\ last.op = "run"
    /\ last.wrapper = "GitGutterNextChangeCommand"
    /\ Len(last.calls) = 1
    /\ last.calls[1].fn = "goto.next_change"
    /\ _state = 0
    /\ ~env.enable

\* The work_tree and version calls among calls.
QueriesIn(calls) ==
    SelectSeq(calls, LAMBDA q : q.fn \in {"git_handler.work_tree",
                                         "git_handler.version"})

\* C16: an evaluation in which one of the conditions 1..7 holds queries
\* neither work_tree nor version, and one in which work_tree returns a falsy
\* value does not query version; the handler's cached working tree and
\* version are then left as they were.
C16_NoQueryWhenDisabledEarlier ==
    [][GateStep =>
        LET wt == CallsOf(last'.calls, "git_handler.work_tree")
        IN  /\ Holding(env', NoEvents, NoneVal, NoneVal) \cap (1..7) # {} =>
                /\ QueriesIn(last'.calls) = <<>>
                /\ git_tree' = git_tree
                /\ git_version' = git_version
            /\ (Len(wt) > 0 /\ ~Truthy(wt[1].ret)) =>
                /\ Count(last'.calls, "git_handler.version") = 0
                /\ git_version' = git_version]_vars

\* A validating evaluation of a read-only view made no query: the handler
\* still caches the working tree although the file has left it.
C16_Witness ==
    /\ last.op = "is_enabled"
    /\ last.state = 4
    /\ Validating(last.kwargs.events)
    /\ QueriesIn(last.calls) = <<>>
    /\ ~Truthy(last.cond.tree)
    /\ git_tree = "/repo"
    /\ git_version = "2.9.0"

====
